---- MODULE Spec2Model ----
(***************************************************************************)
(* Model of the layer manager (src/layer/mod.rs) and of the interaction    *)
(* event dispatch (src/interaction/events.rs) of toy-ui.                   *)
(*                                                                         *)
(* A layer is a record [render_fn, kind, z_index, options].  render_fn is  *)
(* the identity of the closure the layer owns; the manager's add methods   *)
(* number the closures in the order they are added since the last clear,   *)
(* so render_fn also tells which of two layers was added first.            *)
(***************************************************************************)
EXTENDS Integers, Sequences, FiniteSets, TLC

VARIABLES layers, op, calls, consumed, panicked, cleared,
          state, handlers, emitted, invoked, downs, before, history

lvars == <<layers, op, calls, consumed, panicked, cleared>>

ivars == <<state, handlers, emitted, invoked, downs, before, history>>

vars == <<lvars, ivars>>

(* Largest number of layers held by the manager at once. *)
MaxLayers == 3

(* The z_index values (i32) the adds draw from. *)
ZValues == {-1, 0, 1}

(* The variants of InputEvent; positions, buttons and keys are not read by *)
(* the manager and are left out.                                           *)
InputEvents == {"MouseDown", "KeyDown"}

(* MTLClearColor values as <<r, g, b, a>>. *)
Black == <<0, 0, 0, 1>>
Transparent == <<0, 0, 0, 0>>
Red == <<1, 0, 0, 1>>

(* LayerOptions::default *)
DefaultOptions ==
    [receives_input |-> FALSE, blend_mode |-> "Alpha", clear |-> FALSE,
     clear_color |-> Black]

with_input(o) == [o EXCEPT !.receives_input = TRUE]

with_clear(o) == [o EXCEPT !.clear = TRUE]

with_clear_color(o, c) == [o EXCEPT !.clear_color = c]

(* The options the adds draw from, each built the way a caller builds it. *)
OptionChoices ==
    { DefaultOptions,
      with_input(with_clear_color(with_clear(DefaultOptions), Red)) }

(* RawLayer::new, UiLayer::new, and a Layer implementation that overrides  *)
(* handle_input.                                                           *)
RawLayer(f, z, o) == [render_fn |-> f, kind |-> "raw", z_index |-> z, options |-> o]

UiLayer(f, z, o) == [render_fn |-> f, kind |-> "ui", z_index |-> z, options |-> o]

OtherLayer(f, z, o) == [render_fn |-> f, kind |-> "other", z_index |-> z, options |-> o]

(***************************************************************************)
(* add_layer: push, then the stable sort_by_key on z_index.                *)
(***************************************************************************)
InsertUnstable(sorted, l) ==
    LET k == Cardinality({i \in 1..Len(sorted) : sorted[i].z_index < l.z_index})
    IN  SubSeq(sorted, 1, k) \o <<l>> \o SubSeq(sorted, k + 1, Len(sorted))

(* One step of the stable sort: l goes after every element whose key is    *)
(* not greater than its own.                                               *)
InsertByKey(sorted, l) ==
    LET k == Cardinality({i \in 1..Len(sorted) : sorted[i].z_index <= l.z_index})
    IN  SubSeq(sorted, 1, k) \o <<l>> \o SubSeq(sorted, k + 1, Len(sorted))

RECURSIVE SortByKey(_)
SortByKey(s) ==
    IF s = <<>> THEN <<>>
    ELSE InsertByKey(SortByKey(SubSeq(s, 1, Len(s) - 1)), s[Len(s)])

PushOnly(ls, l) == Append(ls, l)

PushFront(ls, l) == <<l>> \o ls

AddReplacing(ls, l) ==
    SortByKey(Append(SelectSeq(ls, LAMBDA x : x.z_index # l.z_index), l))

add_layer(ls, l) == SortByKey(Append(ls, l))

(***************************************************************************)
(* LayerManager::clear                                                     *)
(***************************************************************************)
ClearNothing(ls) == ls

ClearLayers(ls) == <<>>

(***************************************************************************)
(* Layer::render of the three kinds of layer.  A call is recorded with the *)
(* steps the layer took, whether its closure called a placeholder, and the *)
(* render pass it submitted, if any.                                       *)
(* uses: for every raw closure, the placeholder of RawLayerContext it      *)
(* calls when it runs, or "none".                                          *)
(***************************************************************************)
SilentNoOp == "returns"

(* RawLayerContext's placeholders: each is a todo!(), which panics. *)
draw_fullscreen_quad == "panics"

set_camera == "panics"

draw_mesh == "panics"

Placeholders == {"draw_fullscreen_quad", "set_camera", "draw_mesh"}

(* Whether a closure that calls the placeholder p, or none, returns. *)
ClosureReturns(p) ==
    CASE p = "draw_fullscreen_quad" -> draw_fullscreen_quad = "returns"
      [] p = "set_camera" -> set_camera = "returns"
      [] p = "draw_mesh" -> draw_mesh = "returns"
      [] OTHER -> TRUE

LoadOnlyWhenNotFirst(options, is_first_layer) ==
    IF is_first_layer
    THEN [load_action |-> "Clear", clear_color |-> options.clear_color]
    ELSE [load_action |-> "Load", clear_color |-> Transparent]

ClearWithDefaultColor(options, is_first_layer) ==
    IF options.clear \/ is_first_layer
    THEN [load_action |-> "Clear", clear_color |-> Black]
    ELSE [load_action |-> "Load", clear_color |-> Transparent]

(* The load action and clear colour a UI layer hands to render_draw_list. *)
UiLoadAction(options, is_first_layer) ==
    IF options.clear \/ is_first_layer
    THEN [load_action |-> "Clear", clear_color |-> options.clear_color]
    ELSE [load_action |-> "Load", clear_color |-> Transparent]

RawLayerRender(layer, is_first_layer, uses) ==
    [render_fn |-> layer.render_fn, is_first_layer |-> is_first_layer,
     steps |-> <<"render_fn">>, placeholder |-> uses[layer.render_fn] # "none",
     load_action |-> "None", clear_color |-> <<>>,
     returned |-> ClosureReturns(uses[layer.render_fn])]

UiSubmitBeforeBuild(layer, is_first_layer) ==
    LET pass == UiLoadAction(layer.options, is_first_layer)
    IN  [render_fn |-> layer.render_fn, is_first_layer |-> is_first_layer,
         steps |-> <<"UiContext::new", "draw_list", "render_draw_list", "render_fn">>,
         placeholder |-> FALSE,
         load_action |-> pass.load_action, clear_color |-> pass.clear_color,
         returned |-> TRUE]

UiLayerRender(layer, is_first_layer) ==
    LET pass == UiLoadAction(layer.options, is_first_layer)
    IN  [render_fn |-> layer.render_fn, is_first_layer |-> is_first_layer,
         steps |-> <<"UiContext::new", "render_fn", "draw_list", "render_draw_list">>,
         placeholder |-> FALSE,
         load_action |-> pass.load_action, clear_color |-> pass.clear_color,
         returned |-> TRUE]

OtherLayerRender(layer, is_first_layer) ==
    [render_fn |-> layer.render_fn, is_first_layer |-> is_first_layer,
     steps |-> <<>>, placeholder |-> FALSE,
     load_action |-> "None", clear_color |-> <<>>,
     returned |-> TRUE]

LayerRender(layer, is_first_layer, uses) ==
    CASE layer.kind = "raw" -> RawLayerRender(layer, is_first_layer, uses)
      [] layer.kind = "ui" -> UiLayerRender(layer, is_first_layer)
      [] OTHER -> OtherLayerRender(layer, is_first_layer)

(***************************************************************************)
(* LayerManager::render: the loop over layers.iter_mut().enumerate().      *)
(* index counts from 1 here, from 0 in the code.                           *)
(***************************************************************************)
IsFirstAlways(index) == TRUE

IsFirstLayer(index) == index = 1

RECURSIVE RenderFrom(_, _, _)
RenderFrom(ls, index, uses) ==
    IF index > Len(ls) THEN <<>>
    ELSE LET c == LayerRender(ls[index], IsFirstLayer(index), uses)
         IN  IF c.returned THEN <<c>> \o RenderFrom(ls, index + 1, uses)
             ELSE <<c>>

render(ls, uses) == RenderFrom(ls, 1, uses)

(***************************************************************************)
(* Layer::handle_input: the trait's default, which RawLayer and UiLayer    *)
(* keep, answers false.  consumers: the overriding layers that answer true *)
(* to this event.                                                          *)
(***************************************************************************)
DefaultAnswersTrue(layer, event, consumers) ==
    IF layer.kind = "other" THEN layer.render_fn \in consumers ELSE TRUE

LayerHandleInput(layer, event, consumers) ==
    IF layer.kind = "other" THEN layer.render_fn \in consumers ELSE FALSE

(***************************************************************************)
(* LayerManager::handle_input: the loop over layers.iter_mut().rev().      *)
(* The result is the calls made on layers and the value returned.          *)
(***************************************************************************)
RECURSIVE HandleInputFrom(_, _, _, _)
HandleInputFrom(ls, i, event, consumers) ==
    IF i = 0 THEN [calls |-> <<>>, consumed |-> FALSE]
    ELSE IF ls[i].options.receives_input
         THEN LET r == LayerHandleInput(ls[i], event, consumers)
                  c == [render_fn |-> ls[i].render_fn, event |-> event, returned |-> r]
              IN  IF r THEN [calls |-> <<c>>, consumed |-> TRUE]
                  ELSE LET rest == HandleInputFrom(ls, i - 1, event, consumers)
                       IN  [calls |-> <<c>> \o rest.calls, consumed |-> rest.consumed]
         ELSE HandleInputFrom(ls, i - 1, event, consumers)

(* Variants of the loop: without rev(), without reporting the consumer,    *)
(* and without the early return.                                           *)
RECURSIVE HandleInputForward(_, _, _, _)
HandleInputForward(ls, i, event, consumers) ==
    IF i > Len(ls) THEN [calls |-> <<>>, consumed |-> FALSE]
    ELSE IF ls[i].options.receives_input
         THEN LET r == LayerHandleInput(ls[i], event, consumers)
                  c == [render_fn |-> ls[i].render_fn, event |-> event, returned |-> r]
              IN  IF r THEN [calls |-> <<c>>, consumed |-> TRUE]
                  ELSE LET rest == HandleInputForward(ls, i + 1, event, consumers)
                       IN  [calls |-> <<c>> \o rest.calls, consumed |-> rest.consumed]
         ELSE HandleInputForward(ls, i + 1, event, consumers)

RECURSIVE HandleInputAll(_, _, _, _)
HandleInputAll(ls, i, event, consumers) ==
    IF i = 0 THEN [calls |-> <<>>, consumed |-> FALSE]
    ELSE LET rest == HandleInputAll(ls, i - 1, event, consumers)
         IN  IF ls[i].options.receives_input
             THEN LET r == LayerHandleInput(ls[i], event, consumers)
                      c == [render_fn |-> ls[i].render_fn, event |-> event,
                            returned |-> r]
                  IN  [calls |-> <<c>> \o rest.calls, consumed |-> r \/ rest.consumed]
             ELSE rest

handle_input_forward(ls, event, consumers) == HandleInputForward(ls, 1, event, consumers)

handle_input_unreported(ls, event, consumers) ==
    [calls |-> HandleInputFrom(ls, Len(ls), event, consumers).calls, consumed |-> FALSE]

handle_input_all(ls, event, consumers) == HandleInputAll(ls, Len(ls), event, consumers)

handle_input(ls, event, consumers) == HandleInputFrom(ls, Len(ls), event, consumers)

(***************************************************************************)
(* Interaction events (src/interaction/events.rs).  An event is a record   *)
(* [kind, element_id, button, position, local_position]; the variants      *)
(* without a button carry "none" there, those without a position <<>>.    *)
(***************************************************************************)
Elements == {"a", "b"}

MouseButtons == {"Left", "Right"}

Positions == {<<5, 5>>, <<6, 8>>}

(* The origin of each element's region, which local positions refer to. *)
Origin == [e \in Elements |-> IF e = "a" THEN <<1, 2>> ELSE <<4, 0>>]

Local(e, pos) == <<pos[1] - Origin[e][1], pos[2] - Origin[e][2]>>

MouseEnter(e) ==
    [kind |-> "MouseEnter", element_id |-> e, button |-> "none",
     position |-> <<>>, local_position |-> <<>>]

MouseLeave(e) ==
    [kind |-> "MouseLeave", element_id |-> e, button |-> "none",
     position |-> <<>>, local_position |-> <<>>]

MouseMove(e, pos) ==
    [kind |-> "MouseMove", element_id |-> e, button |-> "none",
     position |-> pos, local_position |-> Local(e, pos)]

MouseDown(e, b, pos) ==
    [kind |-> "MouseDown", element_id |-> e, button |-> b,
     position |-> pos, local_position |-> Local(e, pos)]

MouseUp(e, b, pos) ==
    [kind |-> "MouseUp", element_id |-> e, button |-> b,
     position |-> pos, local_position |-> Local(e, pos)]

Click(e, b, pos) ==
    [kind |-> "Click", element_id |-> e, button |-> b,
     position |-> pos, local_position |-> Local(e, pos)]

(* InteractionState::new *)
InteractionStateNew == [is_hovered |-> FALSE, is_pressed |-> FALSE]

(***************************************************************************)
(* EventHandlers: the set of the callbacks that are Some.                  *)
(***************************************************************************)
EventHandlersNew == {}

AllHandlers ==
    {"on_mouse_enter", "on_mouse_leave", "on_mouse_move",
     "on_mouse_down", "on_mouse_up", "on_click"}

HandlerChoices ==
    { EventHandlersNew,
      {"on_click"},
      {"on_mouse_down", "on_mouse_up"},
      AllHandlers }

Invoke(h, callback, args) ==
    IF callback \in h THEN <<[callback |-> callback, args |-> args]>> ELSE <<>>

HandleEventDownAsClick(h, event) ==
    CASE event.kind = "MouseEnter" -> Invoke(h, "on_mouse_enter", <<>>)
      [] event.kind = "MouseLeave" -> Invoke(h, "on_mouse_leave", <<>>)
      [] event.kind = "MouseMove" ->
            Invoke(h, "on_mouse_move", <<event.position, event.local_position>>)
      [] event.kind = "MouseDown" ->
            Invoke(h, "on_click", <<event.button, event.position, event.local_position>>)
      [] event.kind = "MouseUp" ->
            Invoke(h, "on_mouse_up", <<event.button, event.position, event.local_position>>)
      [] event.kind = "Click" ->
            Invoke(h, "on_click", <<event.button, event.position, event.local_position>>)

HandleEventSwappedArgs(h, event) ==
    CASE event.kind = "MouseEnter" -> Invoke(h, "on_mouse_enter", <<>>)
      [] event.kind = "MouseLeave" -> Invoke(h, "on_mouse_leave", <<>>)
      [] event.kind = "MouseMove" ->
            Invoke(h, "on_mouse_move", <<event.local_position, event.position>>)
      [] event.kind = "MouseDown" ->
            Invoke(h, "on_mouse_down", <<event.button, event.position, event.local_position>>)
      [] event.kind = "MouseUp" ->
            Invoke(h, "on_mouse_up", <<event.button, event.position, event.local_position>>)
      [] event.kind = "Click" ->
            Invoke(h, "on_click", <<event.button, event.position, event.local_position>>)

(* EventHandlers::handle_event: the callbacks invoked for one event. *)
handle_event(h, event) ==
    CASE event.kind = "MouseEnter" -> Invoke(h, "on_mouse_enter", <<>>)
      [] event.kind = "MouseLeave" -> Invoke(h, "on_mouse_leave", <<>>)
      [] event.kind = "MouseMove" ->
            Invoke(h, "on_mouse_move", <<event.position, event.local_position>>)
      [] event.kind = "MouseDown" ->
            Invoke(h, "on_mouse_down", <<event.button, event.position, event.local_position>>)
      [] event.kind = "MouseUp" ->
            Invoke(h, "on_mouse_up", <<event.button, event.position, event.local_position>>)
      [] event.kind = "Click" ->
            Invoke(h, "on_click", <<event.button, event.position, event.local_position>>)

(***************************************************************************)
(* The interaction state machine of one element: the new InteractionState  *)
(* and the events emitted for a raw pointer signal resolved to the         *)
(* element.  A signal whose condition does not hold changes nothing and    *)
(* emits nothing.                                                          *)
(***************************************************************************)
PointerEnter(st, e) ==
    IF ~st.is_hovered
    THEN [state |-> [st EXCEPT !.is_hovered = TRUE], events |-> <<MouseEnter(e)>>]
    ELSE [state |-> st, events |-> <<>>]

LeaveClearsPress(st, e) ==
    IF st.is_hovered
    THEN [state |-> InteractionStateNew, events |-> <<MouseLeave(e)>>]
    ELSE [state |-> st, events |-> <<>>]

PointerLeave(st, e) ==
    IF st.is_hovered
    THEN [state |-> [st EXCEPT !.is_hovered = FALSE], events |-> <<MouseLeave(e)>>]
    ELSE [state |-> st, events |-> <<>>]

PointerMove(st, e, pos) ==
    IF st.is_hovered
    THEN [state |-> st, events |-> <<MouseMove(e, pos)>>]
    ELSE [state |-> st, events |-> <<>>]

ButtonPress(st, e, b, pos) ==
    IF st.is_hovered
    THEN [state |-> [st EXCEPT !.is_pressed = TRUE], events |-> <<MouseDown(e, b, pos)>>]
    ELSE [state |-> st, events |-> <<>>]

ReleaseClickFirst(st, e, b, pos) ==
    IF st.is_pressed
    THEN [state |-> [st EXCEPT !.is_pressed = FALSE],
          events |-> IF st.is_hovered
                     THEN <<Click(e, b, pos), MouseUp(e, b, pos)>>
                     ELSE <<MouseUp(e, b, pos)>>]
    ELSE [state |-> [st EXCEPT !.is_pressed = FALSE], events |-> <<>>]

ReleaseAlwaysClicks(st, e, b, pos) ==
    IF st.is_pressed
    THEN [state |-> [st EXCEPT !.is_pressed = FALSE],
          events |-> <<MouseUp(e, b, pos), Click(e, b, pos)>>]
    ELSE [state |-> [st EXCEPT !.is_pressed = FALSE], events |-> <<>>]

ReleaseUnchecked(st, e, b, pos) ==
    [state |-> [st EXCEPT !.is_pressed = FALSE],
     events |-> IF st.is_hovered
                THEN <<MouseUp(e, b, pos), Click(e, b, pos)>>
                ELSE <<MouseUp(e, b, pos)>>]

ButtonRelease(st, e, b, pos) ==
    IF st.is_pressed
    THEN [state |-> [st EXCEPT !.is_pressed = FALSE],
          events |-> IF st.is_hovered
                     THEN <<MouseUp(e, b, pos), Click(e, b, pos)>>
                     ELSE <<MouseUp(e, b, pos)>>]
    ELSE [state |-> [st EXCEPT !.is_pressed = FALSE], events |-> <<>>]

(* Dispatch: every emitted event goes through the element's handler set. *)
RECURSIVE Dispatch(_, _)
Dispatch(h, events) ==
    IF events = <<>> THEN <<>>
    ELSE handle_event(h, Head(events)) \o Dispatch(h, Tail(events))

(***************************************************************************)
(* The elements as a state machine.  state and handlers are the elements'  *)
(* InteractionState and EventHandlers; emitted and invoked are the events  *)
(* and the callbacks of the last delivery, each callback with the element  *)
(* whose handler set it belongs to.  downs[e] is the buttons of the        *)
(* MouseDown events emitted for e since the last MouseUp emitted for e,    *)
(* and before is downs as it was before the last delivery.  history is    *)
(* the deliveries made to one element since it was created, each with the *)
(* raw signal, the element's InteractionState before it and the events    *)
(* emitted; it is kept only when one element is followed on its own.      *)
(***************************************************************************)
ElementsNew ==
    /\ state = [e \in Elements |-> InteractionStateNew]
    /\ emitted = <<>>
    /\ invoked = <<>>
    /\ downs = [e \in Elements |-> {}]
    /\ before = [e \in Elements |-> {}]
    /\ history = <<>>

RECURSIVE Track(_, _)
Track(d, events) ==
    IF events = <<>> THEN d
    ELSE LET ev == Head(events)
         IN  Track(CASE ev.kind = "MouseDown" -> d \cup {ev.button}
                     [] ev.kind = "MouseUp" -> {}
                     [] OTHER -> d,
                   Tail(events))

Deliver(e, r) ==
    /\ state' = [state EXCEPT ![e] = r.state]
    /\ emitted' = r.events
    /\ invoked' = LET cs == Dispatch(handlers[e], r.events)
                  IN  [k \in 1..Len(cs) |->
                         [element_id |-> e, callback |-> cs[k].callback,
                          args |-> cs[k].args]]
    /\ before' = downs
    /\ downs' = [downs EXCEPT ![e] = Track(downs[e], r.events)]
    /\ UNCHANGED handlers
    /\ UNCHANGED lvars

Enter ==
    /\ \E e \in Elements : Deliver(e, PointerEnter(state[e], e))
    /\ UNCHANGED history

Leave ==
    /\ \E e \in Elements : Deliver(e, PointerLeave(state[e], e))
    /\ UNCHANGED history

Move ==
    /\ \E e \in Elements, pos \in Positions : Deliver(e, PointerMove(state[e], e, pos))
    /\ UNCHANGED history

Down ==
    /\ \E e \in Elements, b \in MouseButtons, pos \in Positions :
          Deliver(e, ButtonPress(state[e], e, b, pos))
    /\ UNCHANGED history

Up ==
    /\ \E e \in Elements, b \in MouseButtons, pos \in Positions :
          Deliver(e, ButtonRelease(state[e], e, b, pos))
    /\ UNCHANGED history

(***************************************************************************)
(* One element followed on its own: the same deliveries, each appended to  *)
(* history, until history holds MaxHistory of them.                        *)
(***************************************************************************)
MaxHistory == 5

Followed == "a"

FollowedPosition == <<5, 5>>

Signal(kind, b) == [kind |-> kind, button |-> b]

Logged(signal, r) ==
    /\ Len(history) < MaxHistory
    /\ Deliver(Followed, r)
    /\ history' = Append(history, [signal |-> signal, was |-> state[Followed],
                                   events |-> r.events])

FollowedEnter == Logged(Signal("Enter", "none"), PointerEnter(state[Followed], Followed))

FollowedLeave == Logged(Signal("Leave", "none"), PointerLeave(state[Followed], Followed))

FollowedMove ==
    Logged(Signal("Move", "none"),
           PointerMove(state[Followed], Followed, FollowedPosition))

FollowedDown ==
    \E b \in MouseButtons :
       Logged(Signal("Down", b),
              ButtonPress(state[Followed], Followed, b, FollowedPosition))

FollowedUp ==
    \E b \in MouseButtons :
       Logged(Signal("Up", b),
              ButtonRelease(state[Followed], Followed, b, FollowedPosition))

(***************************************************************************)
(* The manager as a state machine.  op is the last operation called, calls *)
(* the calls it made on layers, consumed the value handle_input returned   *)
(* (FALSE after any other operation), panicked whether a closure panicked, *)
(* which ends the run.  cleared: clear() was called and nothing has been   *)
(* added since.                                                            *)
(***************************************************************************)
Fns(ls, kind) == {ls[i].render_fn : i \in {j \in 1..Len(ls) : ls[j].kind = kind}}

LayerManagerNew ==
    /\ layers = <<>>
    /\ op = "new"
    /\ calls = <<>>
    /\ consumed = FALSE
    /\ panicked = FALSE
    /\ cleared = FALSE

Init ==
    /\ LayerManagerNew
    /\ ElementsNew
    /\ handlers = [e \in Elements |-> EventHandlersNew]

Running == ~panicked

Added(l, name) ==
    /\ layers' = add_layer(layers, l)
    /\ op' = name
    /\ calls' = <<>>
    /\ consumed' = FALSE
    /\ panicked' = FALSE
    /\ cleared' = FALSE
    /\ UNCHANGED ivars

AddRawLayer ==
    /\ Running
    /\ Len(layers) < MaxLayers
    /\ \E z \in ZValues, o \in OptionChoices :
          Added(RawLayer(Len(layers) + 1, z, o), "add_raw_layer")

AddUiLayer ==
    /\ Running
    /\ Len(layers) < MaxLayers
    /\ \E z \in ZValues, o \in OptionChoices :
          Added(UiLayer(Len(layers) + 1, z, o), "add_ui_layer")

AddOtherLayer ==
    /\ Running
    /\ Len(layers) < MaxLayers
    /\ \E z \in ZValues, o \in OptionChoices :
          Added(OtherLayer(Len(layers) + 1, z, o), "add_layer")

Clear ==
    /\ Running
    /\ layers' = ClearLayers(layers)
    /\ op' = "clear"
    /\ calls' = <<>>
    /\ consumed' = FALSE
    /\ panicked' = FALSE
    /\ cleared' = TRUE
    /\ UNCHANGED ivars

Render ==
    /\ Running
    /\ \E uses \in [Fns(layers, "raw") -> Placeholders \cup {"none"}] :
          LET cs == render(layers, uses)
          IN  /\ calls' = cs
              /\ panicked' = \E i \in 1..Len(cs) : ~cs[i].returned
    /\ op' = "render"
    /\ consumed' = FALSE
    /\ UNCHANGED <<layers, cleared>>
    /\ UNCHANGED ivars

HandleInput ==
    /\ Running
    /\ \E event \in InputEvents, consumers \in SUBSET Fns(layers, "other") :
          LET r == handle_input(layers, event, consumers)
          IN  /\ calls' = r.calls
              /\ consumed' = r.consumed
    /\ op' = "handle_input"
    /\ UNCHANGED <<layers, panicked, cleared>>
    /\ UNCHANGED ivars

Next ==
    \/ AddRawLayer
    \/ AddUiLayer
    \/ AddOtherLayer
    \/ Clear
    \/ Render
    \/ HandleInput

Spec == Init /\ [][Next]_vars

(* The elements alone, for every choice of the registered handlers. *)
InteractionInit ==
    /\ LayerManagerNew
    /\ ElementsNew
    /\ handlers \in [Elements -> HandlerChoices]

InteractionNext ==
    \/ Enter
    \/ Leave
    \/ Move
    \/ Down
    \/ Up

InteractionSpec == InteractionInit /\ [][InteractionNext]_vars

(* One element, with every callback registered, and its history. *)
HistoryInit ==
    /\ LayerManagerNew
    /\ ElementsNew
    /\ handlers = [e \in Elements |-> AllHandlers]

HistoryNext ==
    \/ FollowedEnter
    \/ FollowedLeave
    \/ FollowedMove
    \/ FollowedDown
    \/ FollowedUp

HistorySpec == HistoryInit /\ [][HistoryNext]_vars

(***************************************************************************)
(* Properties of the layer manager.                                        *)
(***************************************************************************)
Pos(f) == CHOOSE i \in 1..Len(layers) : layers[i].render_fn = f

Sorted(ls) == \A i, j \in 1..Len(ls) : i < j => ls[i].z_index <= ls[j].z_index

Rendered == op = "render"

Routed == op = "handle_input"

(* C1: the layer sequence is always sorted by z_index in non-decreasing    *)
(* order, and render calls the layers' render in exactly that order: the   *)
(* k-th call is on the k-th layer, and every layer is called unless a      *)
(* closure panicked.                                                       *)
C1_SortedRenderOrder ==
    /\ Sorted(layers)
    /\ Rendered =>
          /\ Len(calls) <= Len(layers)
          /\ \A k \in 1..Len(calls) : calls[k].render_fn = layers[k].render_fn
          /\ \A k, m \in 1..Len(calls) :
                k < m => layers[Pos(calls[k].render_fn)].z_index
                            <= layers[Pos(calls[m].render_fn)].z_index
          /\ ~panicked => Len(calls) = Len(layers)

C1_Witness ==
    /\ Rendered /\ ~panicked /\ Len(calls) = 3
    /\ layers[1].render_fn = 3
    /\ layers[1].z_index < layers[2].z_index
    /\ layers[2].z_index < layers[3].z_index

(* C2: of two layers with equal z_index the one added earlier comes first  *)
(* in the sequence and in the render calls, whatever was added after them. *)
C2_StableOrder ==
    /\ \A i, j \in 1..Len(layers) :
          (i < j /\ layers[i].z_index = layers[j].z_index)
             => layers[i].render_fn < layers[j].render_fn
    /\ Rendered =>
          \A k, m \in 1..Len(calls) :
             (k < m /\ layers[Pos(calls[k].render_fn)].z_index
                          = layers[Pos(calls[m].render_fn)].z_index)
                => calls[k].render_fn < calls[m].render_fn

C2_Witness ==
    /\ Rendered /\ Len(calls) = 3
    /\ \E i, j, k \in 1..3 :
          /\ i < j /\ layers[i].z_index = layers[j].z_index
          /\ layers[k].render_fn = 3 /\ k < i

(* C3: a render of a non-empty sequence passes is_first_layer = true to    *)
(* the layer at position 0, which has the lowest z_index and is the        *)
(* earliest added among those, and false to every other layer.             *)
C3_FirstLayerFlag ==
    (Rendered /\ layers # <<>>) =>
       /\ calls # <<>>
       /\ calls[1].is_first_layer
       /\ calls[1].render_fn = layers[1].render_fn
       /\ \A k \in 2..Len(calls) : ~calls[k].is_first_layer
       /\ \A i \in 1..Len(layers) :
             \/ layers[Pos(calls[1].render_fn)].z_index < layers[i].z_index
             \/ /\ layers[Pos(calls[1].render_fn)].z_index = layers[i].z_index
                /\ calls[1].render_fn <= layers[i].render_fn

C3_Witness ==
    /\ Rendered /\ Len(calls) = 3
    /\ layers[1].z_index = layers[2].z_index
    /\ layers[1].render_fn = 2
    /\ calls[1].is_first_layer /\ ~calls[2].is_first_layer /\ ~calls[3].is_first_layer

C5_RoutingOrder ==
    Routed =>
       /\ \A k \in 1..Len(calls) :
             /\ calls[k].render_fn \in {layers[i].render_fn : i \in 1..Len(layers)}
             /\ layers[Pos(calls[k].render_fn)].options.receives_input
             /\ calls[k].event = calls[1].event
             /\ calls[k].returned => k = Len(calls)
       /\ \A k, m \in 1..Len(calls) :
             k < m => Pos(calls[k].render_fn) > Pos(calls[m].render_fn)
       /\ \A i \in 1..Len(layers) :
             (/\ layers[i].options.receives_input
              /\ \A k \in 1..Len(calls) :
                    calls[k].returned => Pos(calls[k].render_fn) <= i)
                => \E k \in 1..Len(calls) : calls[k].render_fn = layers[i].render_fn

C5_Witness ==
    /\ Routed /\ Len(layers) = 3 /\ Len(calls) = 2
    /\ calls[1].render_fn = layers[3].render_fn /\ ~calls[1].returned
    /\ calls[2].render_fn = layers[2].render_fn /\ calls[2].returned
    /\ layers[1].options.receives_input

(* C6: handle_input returns true exactly when an input-receptive layer     *)
(* returned true for the event; when it returns false, every receptive     *)
(* layer was asked and declined.                                           *)
C6_ConsumedIffLayerConsumed ==
    Routed =>
       /\ consumed <=> \E k \in 1..Len(calls) :
                          /\ calls[k].returned
                          /\ \E i \in 1..Len(layers) :
                                /\ layers[i].render_fn = calls[k].render_fn
                                /\ layers[i].options.receives_input
       /\ ~consumed =>
             \A i \in 1..Len(layers) :
                layers[i].options.receives_input =>
                   \E k \in 1..Len(calls) :
                      calls[k].render_fn = layers[i].render_fn /\ ~calls[k].returned

C6_Witness ==
    /\ Routed /\ consumed /\ Len(layers) = 3
    /\ ~layers[3].options.receives_input /\ layers[3].kind = "other"
    /\ Len(calls) = 2 /\ calls[2].returned

(* C7 as claimed: one handle_input call invokes at most one layer.         *)
C7_AtMostOneInvoked == Routed => Len(calls) <= 1

(* C7 amended: one handle_input call has at most one layer return true,    *)
(* although several layers may be invoked.                                 *)
C7_AtMostOneConsumer ==
    Routed => Cardinality({k \in 1..Len(calls) : calls[k].returned}) <= 1

C7_Witness ==
    /\ Routed /\ Len(calls) = 3 /\ calls[3].returned
    /\ \A i \in 1..3 : layers[i].kind = "other"

(* C8: after clear() the manager is empty: a render or handle_input that   *)
(* follows calls no layer, handle_input returns false, nothing panics, and *)
(* another clear() leaves the manager empty.                               *)
C8_AfterClear ==
    cleared =>
       /\ layers = <<>>
       /\ calls = <<>>
       /\ ~consumed
       /\ ~panicked

C8_Witness == cleared /\ Routed

(* C9: when the z_index values are pairwise distinct, adding the same      *)
(* layers in any other order gives the same sequence, and render calls     *)
(* the layers in that sequence.                                            *)
DistinctZ(ls) == \A i, j \in 1..Len(ls) : i # j => ls[i].z_index # ls[j].z_index

RECURSIVE AddInOrder(_, _, _)
AddInOrder(ls, order, k) ==
    IF k > Len(ls) THEN <<>>
    ELSE add_layer(AddInOrder(ls, order, k + 1), ls[order[k]])

C9_PermutationInvariant ==
    DistinctZ(layers) =>
       /\ \A order \in Permutations(1..Len(layers)) :
             AddInOrder(layers, order, 1) = layers
       /\ (Rendered /\ ~panicked) =>
             [k \in 1..Len(calls) |-> calls[k].render_fn]
                = [i \in 1..Len(layers) |-> layers[i].render_fn]

C9_Witness ==
    /\ Rendered /\ ~panicked /\ Len(layers) = 3 /\ DistinctZ(layers)
    /\ layers[1].render_fn = 2 /\ layers[2].render_fn = 3

(***************************************************************************)
(* Properties of the interaction events.                                   *)
(***************************************************************************)
ClickEvents == {i \in 1..Len(emitted) : emitted[i].kind = "Click"}

ClickCallbacks == {k \in 1..Len(invoked) : invoked[k].callback = "on_click"}

DeliveredFrom(k, i) ==
    /\ emitted[i].element_id = invoked[k].element_id
    /\ invoked[k].args
          = <<emitted[i].button, emitted[i].position, emitted[i].local_position>>

After(i) == IF i < Len(history) THEN history[i + 1].was ELSE state[Followed]

HasClick(events) == \E k \in 1..Len(events) : events[k].kind = "Click"

(* C11: pointer enters an element that was not hovered, Left is pressed,   *)
(* Left is released: the events are MouseEnter, MouseDown(Left),           *)
(* MouseUp(Left), Click(Left), the last two from the one release.          *)
C11_EnterPressRelease ==
    \A i \in 1..(Len(history) - 2) :
       (/\ history[i].signal = Signal("Enter", "none")
        /\ ~history[i].was.is_hovered
        /\ history[i + 1].signal = Signal("Down", "Left")
        /\ history[i + 2].signal = Signal("Up", "Left"))
          => /\ history[i].events = <<MouseEnter(Followed)>>
             /\ history[i + 1].events = <<MouseDown(Followed, "Left", FollowedPosition)>>
             /\ history[i + 2].events = <<MouseUp(Followed, "Left", FollowedPosition),
                                          Click(Followed, "Left", FollowedPosition)>>

C11_Witness ==
    /\ Len(history) = 5
    /\ history[3].signal = Signal("Enter", "none") /\ ~history[3].was.is_hovered
    /\ history[4].signal = Signal("Down", "Left")
    /\ history[5].signal = Signal("Up", "Left")
    /\ Len(emitted) = 2

(* C12: a release while the element is not hovered emits no Click; Enter,  *)
(* Move, Down(Left), Leave, Up(Left) on an element that was not hovered    *)
(* emits exactly MouseEnter, MouseMove, MouseDown(Left), MouseLeave,       *)
(* MouseUp(Left).                                                          *)
C12_ReleaseOffElement ==
    /\ \A i \in 1..Len(history) :
          (history[i].signal.kind = "Up" /\ ~history[i].was.is_hovered)
             => ~HasClick(history[i].events)
    /\ \A i \in 1..(Len(history) - 4) :
          (/\ history[i].signal = Signal("Enter", "none")
           /\ ~history[i].was.is_hovered
           /\ history[i + 1].signal = Signal("Move", "none")
           /\ history[i + 2].signal = Signal("Down", "Left")
           /\ history[i + 3].signal = Signal("Leave", "none")
           /\ history[i + 4].signal = Signal("Up", "Left"))
             => history[i].events \o history[i + 1].events \o history[i + 2].events
                   \o history[i + 3].events \o history[i + 4].events
                = << MouseEnter(Followed),
                     MouseMove(Followed, FollowedPosition),
                     MouseDown(Followed, "Left", FollowedPosition),
                     MouseLeave(Followed),
                     MouseUp(Followed, "Left", FollowedPosition) >>

C12_Witness ==
    /\ Len(history) = 5
    /\ history[1].signal = Signal("Enter", "none")
    /\ history[2].signal = Signal("Move", "none")
    /\ history[3].signal = Signal("Down", "Left")
    /\ history[4].signal = Signal("Leave", "none")
    /\ history[5].signal = Signal("Up", "Left")
    /\ emitted = <<MouseUp(Followed, "Left", FollowedPosition)>>

(***************************************************************************)
(* Further properties of the layer manager.                                *)
(***************************************************************************)
CalledFns == {calls[k].render_fn : k \in 1..Len(calls)}

(* C13: a closure that calls a placeholder of RawLayerContext never        *)
(* returns; the render it runs in panics there, and no layer after it in   *)
(* the sequence is rendered.                                               *)
C13_PlaceholdersAbort ==
    Rendered =>
       /\ \A k \in 1..Len(calls) :
             calls[k].placeholder =>
                /\ ~calls[k].returned
                /\ panicked
                /\ k = Len(calls)
                /\ \A i \in 1..Len(layers) :
                      i > Pos(calls[k].render_fn) => layers[i].render_fn \notin CalledFns
       /\ panicked => calls # <<>> /\ calls[Len(calls)].placeholder

C13_Witness ==
    /\ Rendered /\ panicked /\ Len(layers) = 3 /\ Len(calls) = 2
    /\ calls[2].placeholder
    /\ layers[3].kind = "ui"

(***************************************************************************)
(* Further properties of the interaction events.                           *)
(***************************************************************************)
CallbackFor ==
    [kind \in {"MouseEnter", "MouseLeave", "MouseMove", "MouseDown", "MouseUp", "Click"} |->
        CASE kind = "MouseEnter" -> "on_mouse_enter"
          [] kind = "MouseLeave" -> "on_mouse_leave"
          [] kind = "MouseMove" -> "on_mouse_move"
          [] kind = "MouseDown" -> "on_mouse_down"
          [] kind = "MouseUp" -> "on_mouse_up"
          [] kind = "Click" -> "on_click"]

ArgsFor(ev) ==
    IF ev.kind \in {"MouseEnter", "MouseLeave"} THEN <<>>
    ELSE IF ev.kind = "MouseMove" THEN <<ev.position, ev.local_position>>
    ELSE <<ev.button, ev.position, ev.local_position>>

(* The emitted events, in order, whose own callback the element has. *)
Answered ==
    SelectSeq(emitted,
              LAMBDA ev : CallbackFor[ev.kind] \in handlers[ev.element_id])

(* C14: a delivery invokes, for each event and in the order of the events, *)
(* the callback of the event's own kind once, with the event's button,     *)
(* position and local position, when the element has that callback, and    *)
(* nothing for the event otherwise, whatever other callbacks it has.       *)
C14_OneCallbackPerEvent ==
    /\ Len(invoked) = Len(Answered)
    /\ \A k \in 1..Len(invoked) :
          /\ invoked[k].element_id = Answered[k].element_id
          /\ invoked[k].callback = CallbackFor[Answered[k].kind]
          /\ invoked[k].args = ArgsFor(Answered[k])

C14_Witness ==
    /\ Len(emitted) = 2 /\ Len(invoked) = 1
    /\ emitted[1].kind = "MouseUp"
    /\ invoked[1].callback = "on_click"
    /\ handlers[emitted[1].element_id] = {"on_click"}

(* C15: a UI layer submits its draw list with load action Clear and its    *)
(* own clear_color exactly when it is passed is_first_layer = true or its  *)
(* clear option is true, and with Load and the transparent colour          *)
(* otherwise.                                                              *)
C15_UiLoadAction ==
    Rendered =>
       \A k \in 1..Len(calls) :
          LET l == layers[Pos(calls[k].render_fn)]
          IN  l.kind = "ui" =>
                 IF calls[k].is_first_layer \/ l.options.clear
                 THEN /\ calls[k].load_action = "Clear"
                      /\ calls[k].clear_color = l.options.clear_color
                 ELSE /\ calls[k].load_action = "Load"
                      /\ calls[k].clear_color = Transparent

C15_Witness ==
    /\ Rendered /\ Len(calls) = 3
    /\ \A k \in 1..3 : layers[k].kind = "ui"
    /\ ~layers[1].options.clear /\ calls[1].load_action = "Clear"
    /\ calls[1].clear_color = Black
    /\ layers[2].options.clear /\ calls[2].clear_color = Red
    /\ ~layers[3].options.clear /\ calls[3].load_action = "Load"

(* C16: is_pressed, set by a press while hovered, stays true through every *)
(* signal but a release, a pointer leave included; a release while pressed *)
(* sets it to false and emits MouseUp first, hovered or not.               *)
C16_PressPersists ==
    \A i \in 1..Len(history) :
       LET h == history[i]
       IN  /\ (h.signal.kind = "Down" /\ h.was.is_hovered) => After(i).is_pressed
           /\ (h.was.is_pressed /\ h.signal.kind # "Up") => After(i).is_pressed
           /\ (h.was.is_pressed /\ h.signal.kind = "Up") =>
                 /\ ~After(i).is_pressed
                 /\ h.events # <<>>
                 /\ h.events[1] = MouseUp(Followed, h.signal.button, FollowedPosition)

C16_Witness ==
    /\ Len(history) = 4
    /\ history[2].signal.kind = "Down" /\ history[2].was.is_hovered
    /\ history[3].signal.kind = "Leave" /\ history[3].was.is_pressed
    /\ history[4].signal.kind = "Up" /\ history[4].was.is_pressed
    /\ ~history[4].was.is_hovered
    /\ Len(emitted) = 1 /\ emitted[1].kind = "MouseUp"
    /\ ~state[Followed].is_pressed

(* C17: a release on an element that is not pressed emits no Click and     *)
(* leaves the element's state as it was, is_pressed false, however often   *)
(* it is repeated.                                                         *)
C17_ReleaseWithoutPress ==
    \A i \in 1..Len(history) :
       (history[i].signal.kind = "Up" /\ ~history[i].was.is_pressed) =>
          /\ ~HasClick(history[i].events)
          /\ After(i) = history[i].was
          /\ ~After(i).is_pressed

C17_Witness ==
    /\ Len(history) = 3
    /\ history[1].signal.kind = "Enter"
    /\ history[2].signal.kind = "Up" /\ ~history[2].was.is_pressed
    /\ history[3].signal.kind = "Up" /\ ~history[3].was.is_pressed
    /\ state[Followed] = [is_hovered |-> TRUE, is_pressed |-> FALSE]

StepsAt(steps, name) == {j \in 1..Len(steps) : steps[j] = name}

CallsOn(f) == {k \in 1..Len(calls) : calls[k].render_fn = f}

(* C18 as claimed: every render call invokes the render of every layer it  *)
(* holds exactly once.                                                     *)
C18_EveryLayerOnce ==
    Rendered => \A i \in 1..Len(layers) : Cardinality(CallsOn(layers[i].render_fn)) = 1

(* C18 amended: a render call in which no closure panics invokes the       *)
(* render of every layer exactly once, whatever the layer's options; one   *)
(* in which a raw closure panics invokes once each layer up to that one    *)
(* and no layer after it.  A raw layer runs its closure once; a UI layer   *)
(* makes one UI context, runs its build function once on it, and then      *)
(* submits one draw list.                                                  *)
C18_RenderOnce ==
    Rendered =>
       /\ \A i \in 1..Len(layers) :
             Cardinality(CallsOn(layers[i].render_fn))
                = IF ~panicked \/ i <= Len(calls) THEN 1 ELSE 0
       /\ panicked => calls # <<>> /\ layers[Len(calls)].kind = "raw"
       /\ \A k \in 1..Len(calls) :
             LET l == layers[Pos(calls[k].render_fn)]
                 steps == calls[k].steps
             IN  /\ l.kind = "raw" => steps = <<"render_fn">>
                 /\ l.kind = "ui" =>
                       /\ Cardinality(StepsAt(steps, "UiContext::new")) = 1
                       /\ Cardinality(StepsAt(steps, "render_fn")) = 1
                       /\ Cardinality(StepsAt(steps, "render_draw_list")) = 1
                       /\ \A n \in StepsAt(steps, "UiContext::new"),
                             f \in StepsAt(steps, "render_fn"),
                             d \in StepsAt(steps, "render_draw_list") : n < f /\ f < d

C18_Witness ==
    /\ Rendered /\ ~panicked /\ Len(calls) = 3
    /\ layers[1].kind = "ui" /\ layers[1].options.clear
    /\ layers[2].kind = "raw" /\ layers[2].options.receives_input
    /\ layers[3].kind = "ui" /\ ~layers[3].options.clear

(* The layers were all added by add_raw_layer or add_ui_layer. *)
PublicOnly == \A i \in 1..Len(layers) : layers[i].kind \in {"raw", "ui"}

(* C19: when every layer was added through add_raw_layer or add_ui_layer,  *)
(* handle_input returns false for every event, and every layer that        *)
(* receives input is offered the event and declines it.                    *)
C19_PublicLayersNeverConsume ==
    (Routed /\ PublicOnly) =>
       /\ ~consumed
       /\ \A k \in 1..Len(calls) : ~calls[k].returned
       /\ \A i \in 1..Len(layers) :
             Cardinality(CallsOn(layers[i].render_fn))
                = IF layers[i].options.receives_input THEN 1 ELSE 0

C19_Witness ==
    /\ Routed /\ PublicOnly /\ Len(layers) = 3 /\ Len(calls) = 2
    /\ layers[1].kind = "raw" /\ layers[1].options.receives_input
    /\ layers[2].kind = "ui" /\ ~layers[2].options.receives_input
    /\ layers[3].kind = "ui" /\ layers[3].options.receives_input

Held(ls) == {ls[i] : i \in 1..Len(ls)}

Adds == {"add_raw_layer", "add_ui_layer", "add_layer"}

(* C20: render and handle_input leave the layer sequence as it is; an add  *)
(* keeps every layer held and adds exactly one, equal z_index or not;      *)
(* clear empties the sequence; nothing else changes it, so the layers held *)
(* are the 1st to the n-th added since the last clear.                     *)
C20_FrameEffect ==
    [][ /\ op' \in {"render", "handle_input"} => layers' = layers
        /\ op' \in Adds =>
              /\ Len(layers') = Len(layers) + 1
              /\ Held(layers) \subseteq Held(layers')
              /\ Cardinality(Held(layers')) = Cardinality(Held(layers)) + 1
        /\ op' = "clear" => layers' = <<>>
        /\ layers' # layers => op' \in Adds \cup {"clear"}
        /\ {layers'[i].render_fn : i \in 1..Len(layers')} = 1..Len(layers')
      ]_vars

C20_Witness ==
    /\ Routed /\ Len(layers) = 3
    /\ \A i \in 1..3 :
          /\ layers[i].z_index = layers[1].z_index
          /\ layers[i].kind = layers[1].kind
          /\ layers[i].options = layers[1].options
          /\ layers[i].render_fn = i

====
